---- MODULE Spec2Model ----
(***************************************************************************)
(* Model of src/server.ts: the Express handlers of the contact relay       *)
(* (POST /api/contact) and of the newsletter endpoints                     *)
(* (POST .../subscribe, DELETE .../unsubscribe/:email).                    *)
(*                                                                         *)
(* A handler is an async function: it runs synchronously up to an await of *)
(* an external collaborator (nodemailer's sendMail, Mailchimp's            *)
(* getListMember / addListMember / updateListMember), which later resolves *)
(* or rejects.  Every action below is one such synchronous run.            *)
(***************************************************************************)
EXTENDS Integers, Sequences, FiniteSets, TLC

VARIABLES
    audienceId,     \* process.env.MAILCHIMP_AUDIENCE_ID ("" when not set)
    zodHasErrors,   \* whether the installed zod's ZodError has an `errors` property
    pc,             \* position of the handler of the current request
    req,            \* the current request: [kind, body, email]
    calls,          \* collaborator calls issued by the current request, in order
    inflight,       \* collaborator calls issued and not yet settled
    mail,           \* outcome of transporter.sendMail: none / pending / ok / failed
    lookup,         \* outcome of getListMember: none / pending / ok / failed
    add,            \* outcome of addListMember: none / pending / ok / failed
    thrown,         \* the error last thrown by a collaborator
    logged,         \* console.error lines of the current request
    res             \* the HTTP response of the current request

vars == <<audienceId, zodHasErrors, pc, req, calls, inflight, mail, lookup, add,
          thrown, logged, res>>

-----------------------------------------------------------------------------
(* Bounds of the model *)

\* names are all strings over NameChars of at most this many characters
MaxNameLen == 3

-----------------------------------------------------------------------------
(* Constants of the program *)

NameMin == 2
PhoneMin == 10
MessageMin == 20
MessageMax == 1000

-----------------------------------------------------------------------------
(* Strings.  A name is a sequence of characters; phone and message are only *)
(* measured and forwarded by the handler, so they are given by their length. *)

SP == " "
TAB == "\t"
NameChars == {"a", SP, TAB}
WhiteSpace == {SP, TAB}

RECURSIVE SeqsUpTo(_, _)
SeqsUpTo(S, n) ==
    IF n = 0 THEN {<<>>}
    ELSE LET shorter == SeqsUpTo(S, n - 1)
         IN  shorter \cup {Append(s, c) : s \in {t \in shorter : Len(t) = n - 1}, c \in S}

Names == SeqsUpTo(NameChars, MaxNameLen)

\* String.prototype.split(" "): the pieces between single space characters
RECURSIVE Split(_)
Split(s) ==
    IF \A i \in 1..Len(s) : s[i] # SP THEN <<s>>
    ELSE LET i == CHOOSE k \in 1..Len(s) : s[k] = SP /\ \A j \in 1..(k - 1) : s[j] # SP
         IN  <<SubSeq(s, 1, i - 1)>> \o Split(SubSeq(s, i + 1, Len(s)))

\* Array.prototype.join(" ")
RECURSIVE Join(_)
Join(parts) ==
    IF Len(parts) = 0 THEN <<>>
    ELSE IF Len(parts) = 1 THEN parts[1]
    ELSE parts[1] \o <<SP>> \o Join(Tail(parts))

\* const nameParts = name.split(" "); nameParts[0] || ""
\* (split never returns an empty array, and "" || "" is "")
FirstName(name) == Split(name)[1]

\* nameParts.slice(1).join(" ") || ""
LastName(name) == Join(Tail(Split(name)))

Emails == {"User@Example.com", "user@example.com", "not-an-email"}

\* z.email: the addresses of Emails that match zod's email pattern
IsEmail(e) == e \in {"User@Example.com", "user@example.com"}

\* String.prototype.toLowerCase on Emails
ToLowerCase(e) == IF e = "User@Example.com" THEN "user@example.com" ELSE e

\* crypto.createHash("md5").update(email.toLowerCase()).digest("hex")
SubscriberHash(e) == <<"md5", ToLowerCase(e)>>

-----------------------------------------------------------------------------
(* Request payloads.  A JSON body is a function from the keys it carries.   *)

Restrict(f, S) == [k \in S |-> f[k]]
Has(b, k) == k \in DOMAIN b

ContactFields == {"name", "email", "phone", "contactAbout", "message", "agreeToPolicy"}

PhoneLens == {PhoneMin - 1, PhoneMin}
MessageLens == {MessageMin - 1, MessageMin, MessageMax, MessageMax + 1}
Topics == {"sales", ""}

FullContactBodies ==
    [name : Names, email : {"User@Example.com", "not-an-email"}, phone : PhoneLens,
     contactAbout : Topics, message : MessageLens, agreeToPolicy : BOOLEAN]

ContactKeySets ==
    {ContactFields, ContactFields \ {"contactAbout"}, ContactFields \ {"agreeToPolicy"},
     ContactFields \ {"name", "email"}}

ContactBodies == {Restrict(b, K) : b \in FullContactBodies, K \in ContactKeySets}

SubscribeBodies ==
    {Restrict(b, K) : b \in [email : Emails \cup {""}, firstName : {<<"a">>}, lastName : {<<"a">>}],
                      K \in {{"email", "firstName", "lastName"}, {"email"}, {"firstName"}}}

\* the :email segment of the unsubscribe route matches one or more characters
UnsubscribeParams == [email : Emails]

EmptyBody == [k \in {} |-> ""]

Requests ==
    [kind : {"contact"}, body : ContactBodies]
        \cup [kind : {"subscribe"}, body : SubscribeBodies]
        \cup [kind : {"unsubscribe"}, body : UnsubscribeParams]

-----------------------------------------------------------------------------
(* contactFormSchema: the issues zod reports, in the order of the schema's  *)
(* keys; zod checks every key and collects all issues.                      *)

Issue(field, message) == [field |-> field, message |-> message]

NameIssues(b) ==
    IF ~Has(b, "name") THEN <<Issue("name", "Invalid input")>>
    ELSE IF Len(b.name) < NameMin
         THEN <<Issue("name", "Name must be at least 2 characters.")>>
    ELSE <<>>

EmailIssues(b) ==
    IF ~Has(b, "email") \/ ~IsEmail(b.email)
    THEN <<Issue("email", "Please enter a valid email address.")>>
    ELSE <<>>

PhoneIssues(b) ==
    IF ~Has(b, "phone") THEN <<Issue("phone", "Invalid input")>>
    ELSE IF b.phone < PhoneMin
         THEN <<Issue("phone", "Please enter a valid phone number.")>>
    ELSE <<>>

\* z.string({message}): any string, the empty one included
ContactAboutIssues(b) ==
    IF ~Has(b, "contactAbout") THEN <<Issue("contactAbout", "Please select a topic.")>>
    ELSE <<>>

MessageIssues(b) ==
    IF ~Has(b, "message") THEN <<Issue("message", "Invalid input")>>
    ELSE IF b.message < MessageMin
         THEN <<Issue("message", "Message must be at least 20 characters.")>>
    ELSE IF b.message > MessageMax
         THEN <<Issue("message", "Message must not exceed 1000 characters.")>>
    ELSE <<>>

AgreeIssues(b) ==
    IF ~Has(b, "agreeToPolicy") THEN <<Issue("agreeToPolicy", "Invalid input")>>
    ELSE IF b.agreeToPolicy # TRUE
         THEN <<Issue("agreeToPolicy", "You must agree to the policies to continue.")>>
    ELSE <<>>

SchemaIssues(b) ==
    NameIssues(b) \o EmailIssues(b) \o PhoneIssues(b) \o ContactAboutIssues(b)
        \o MessageIssues(b) \o AgreeIssues(b)

-----------------------------------------------------------------------------
(* Errors thrown by the collaborators, and HTTP responses                   *)

Absent == "<absent>"
NoStatus == 0

TransportErrors == {"EAUTH", "ETIMEDOUT"}

MailchimpErrors ==
    [status : {NoStatus, 400, 404}, title : {"Member Exists", "Resource Not Found", Absent},
     message : {"mailchimp error"}]

\* what the contact flow's audience calls throw: a missing member, or a network failure
EnrollErrors ==
    {[status |-> 404, title |-> "Resource Not Found", message |-> "mailchimp error"],
     [status |-> NoStatus, title |-> Absent, message |-> "mailchimp error"]}

NoError == [status |-> NoStatus, title |-> Absent, message |-> Absent]

Json(status, success, message, error, errors) ==
    [status |-> status, json |-> TRUE, success |-> success, message |-> message,
     error |-> error, errors |-> errors]

NoResponse ==
    [status |-> 0, json |-> FALSE, success |-> FALSE, message |-> Absent,
     error |-> Absent, errors |-> <<>>]

\* the page of Express 5's default error handler for a rejected handler
DefaultErrorPage ==
    [status |-> 500, json |-> FALSE, success |-> FALSE, message |-> Absent,
     error |-> Absent, errors |-> <<>>]

\* a handler rejects: Express 4 never answers, Express 5 answers with its error page
RejectedOutcomes == {NoResponse, DefaultErrorPage}

ContactSuccess == Json(200, TRUE, "Contact form submitted successfully!", Absent, <<>>)
ContactInvalid(issues) == Json(400, FALSE, "Validation error", Absent, issues)
ContactFailure(msg) == Json(500, FALSE, "Failed to submit contact form", msg, <<>>)
EmailRequired == Json(400, FALSE, "Email is required", Absent, <<>>)
NotConfigured == Json(500, FALSE, "Mailchimp audience ID is not configured", Absent, <<>>)
Subscribed == Json(201, TRUE, "Successfully subscribed to newsletter!", Absent, <<>>)
AlreadySubscribed ==
    Json(400, FALSE, "This email is already subscribed to the newsletter", Absent, <<>>)
SubscribeFailure(msg) == Json(500, FALSE, "Failed to subscribe to newsletter", msg, <<>>)
Unsubscribed == Json(200, TRUE, "Successfully unsubscribed from newsletter", Absent, <<>>)
UnsubscribeFailure(msg) == Json(500, FALSE, "Failed to unsubscribe from newsletter", msg, <<>>)

-----------------------------------------------------------------------------
(* Collaborator calls                                                       *)

SendMailCall(b) ==
    [op |-> "sendMail", subject |-> <<b.name, b.email>>, replyTo |-> b.email]

GetListMemberCall(list, email) ==
    [op |-> "getListMember", list |-> list, hash |-> SubscriberHash(email)]

ContactAddCall(list, b) ==
    [op |-> "addListMember", list |-> list, email |-> b.email, status |-> "subscribed",
     FNAME |-> FirstName(b.name), LNAME |-> LastName(b.name), PHONE |-> b.phone,
     tags |-> {"contact-form"}]

\* firstName || "", lastName || ""
SubscribeAddCall(list, b) ==
    [op |-> "addListMember", list |-> list, email |-> b.email, status |-> "subscribed",
     FNAME |-> IF Has(b, "firstName") THEN b.firstName ELSE <<>>,
     LNAME |-> IF Has(b, "lastName") THEN b.lastName ELSE <<>>,
     tags |-> {}]

UpdateListMemberCall(list, email) ==
    [op |-> "updateListMember", list |-> list, hash |-> SubscriberHash(email),
     status |-> "unsubscribed"]

AudienceOps == {"getListMember", "addListMember", "updateListMember"}

-----------------------------------------------------------------------------
(* Configuration checks                                                     *)

\* if (process.env.MAILCHIMP_AUDIENCE_ID) in the contact handler
ContactEnrollmentEnabled_Always == TRUE
ContactEnrollmentEnabled == audienceId # ""

\* if (!process.env.MAILCHIMP_AUDIENCE_ID) in the subscribe handler
SubscribeListMissing_Never == FALSE
SubscribeListMissing == audienceId = ""

\* if (!process.env.MAILCHIMP_AUDIENCE_ID) in the unsubscribe handler
UnsubscribeListMissing == audienceId = ""

\* err.status === 400 && err.response?.body?.title === "Member Exists"
IsMemberExists_TitleOnly(e) == e.title = "Member Exists"
IsMemberExists(e) == e.status = 400 /\ e.title = "Member Exists"

\* !email
Falsy(b, k) == ~Has(b, k) \/ b[k] = ""

-----------------------------------------------------------------------------
(* The state machine                                                        *)

Init ==
    /\ audienceId \in {"", "list-1"}
    /\ zodHasErrors \in BOOLEAN
    /\ pc = "idle"
    /\ req = [kind |-> "none", body |-> EmptyBody]
    /\ calls = <<>>
    /\ inflight = {}
    /\ mail = "none"
    /\ lookup = "none"
    /\ add = "none"
    /\ thrown = NoError
    /\ logged = <<>>
    /\ res = NoResponse

\* Express hands a request to its handler
Receive ==
    /\ pc = "idle"
    /\ \E r \in Requests : req' = r
    /\ pc' = "start"
    /\ UNCHANGED <<audienceId, zodHasErrors, calls, inflight, mail, lookup, add,
                   thrown, logged, res>>

\* the request is over: nothing of it is kept, only the configuration stays
Finish ==
    /\ pc = "done"
    /\ pc' = "idle"
    /\ req' = [kind |-> "none", body |-> EmptyBody]
    /\ calls' = <<>>
    /\ inflight' = {}
    /\ mail' = "none"
    /\ lookup' = "none"
    /\ add' = "none"
    /\ thrown' = NoError
    /\ logged' = <<>>
    /\ res' = NoResponse
    /\ UNCHANGED <<audienceId, zodHasErrors>>

\* the response is sent and the handler returns
Respond(r) == res' = r /\ pc' = "done"

(* POST /api/contact *)

\* contactFormSchema.parse(req.body), then either the ZodError branch of the
\* catch block or the mail is handed to the transport
ContactParse_Parallel ==
    /\ pc = "start" /\ req.kind = "contact"
    /\ LET issues == SchemaIssues(req.body) IN
       IF issues = <<>>
       THEN /\ calls' = calls \o <<SendMailCall(req.body),
                                   GetListMemberCall(audienceId, req.body.email)>>
            /\ inflight' = inflight \cup {"sendMail", "getListMember"}
            /\ mail' = "pending"
            /\ pc' = "contact_await_sendMail"
            /\ UNCHANGED res
       ELSE /\ Respond(ContactInvalid(issues))
            /\ UNCHANGED <<calls, inflight, mail>>
    /\ UNCHANGED <<audienceId, zodHasErrors, req, lookup, add, thrown, logged>>

ContactParse ==
    /\ pc = "start" /\ req.kind = "contact"
    /\ LET issues == SchemaIssues(req.body) IN
       IF issues = <<>>
       THEN /\ calls' = Append(calls, SendMailCall(req.body))
            /\ inflight' = inflight \cup {"sendMail"}
            /\ mail' = "pending"
            /\ pc' = "contact_await_sendMail"
            /\ UNCHANGED res
       ELSE \* error instanceof z.ZodError: error.errors.map(...) throws a
            \* TypeError out of the catch block when ZodError has no `errors`
            /\ IF zodHasErrors
               THEN Respond(ContactInvalid(issues))
               ELSE \E r \in RejectedOutcomes : Respond(r)
            /\ UNCHANGED <<calls, inflight, mail>>
    /\ UNCHANGED <<audienceId, zodHasErrors, req, lookup, add, thrown, logged>>

\* await transporter.sendMail resolves; enrollment starts with the lookup
ContactSendMailOk ==
    /\ pc = "contact_await_sendMail"
    /\ mail' = "ok"
    /\ IF ContactEnrollmentEnabled
       THEN /\ calls' = Append(calls, GetListMemberCall(audienceId, req.body.email))
            /\ inflight' = (inflight \ {"sendMail"}) \cup {"getListMember"}
            /\ lookup' = "pending"
            /\ pc' = "contact_await_getListMember"
            /\ UNCHANGED res
       ELSE /\ inflight' = inflight \ {"sendMail"}
            /\ Respond(ContactSuccess)
            /\ UNCHANGED <<calls, lookup>>
    /\ UNCHANGED <<audienceId, zodHasErrors, req, add, thrown, logged>>

\* await transporter.sendMail rejects: the outer catch reports the failure
ContactSendMailThrows_Enroll ==
    /\ pc = "contact_await_sendMail"
    /\ \E msg \in TransportErrors :
          /\ thrown' = [status |-> NoStatus, title |-> Absent, message |-> msg]
          /\ logged' = Append(logged, "Contact form error:")
    /\ mail' = "failed"
    /\ calls' = Append(calls, GetListMemberCall(audienceId, req.body.email))
    /\ inflight' = (inflight \ {"sendMail"}) \cup {"getListMember"}
    /\ lookup' = "pending"
    /\ pc' = "contact_await_getListMember"
    /\ UNCHANGED <<audienceId, zodHasErrors, req, add, res>>

ContactSendMailThrows ==
    /\ pc = "contact_await_sendMail"
    /\ \E msg \in TransportErrors :
          /\ thrown' = [status |-> NoStatus, title |-> Absent, message |-> msg]
          /\ Respond(ContactFailure(msg))
    /\ mail' = "failed"
    /\ inflight' = inflight \ {"sendMail"}
    /\ logged' = Append(logged, "Contact form error:")
    /\ UNCHANGED <<audienceId, zodHasErrors, req, calls, lookup, add>>

\* getListMember resolves: the member exists, nothing is added
ContactGetListMemberOk_AddAnyway ==
    /\ pc = "contact_await_getListMember"
    /\ lookup' = "ok"
    /\ calls' = Append(calls, ContactAddCall(audienceId, req.body))
    /\ inflight' = (inflight \ {"getListMember"}) \cup {"addListMember"}
    /\ add' = "pending"
    /\ pc' = "contact_await_addListMember"
    /\ UNCHANGED <<audienceId, zodHasErrors, req, mail, thrown, logged, res>>

ContactGetListMemberOk ==
    /\ pc = "contact_await_getListMember"
    /\ lookup' = "ok"
    /\ inflight' = inflight \ {"getListMember"}
    /\ Respond(ContactSuccess)
    /\ UNCHANGED <<audienceId, zodHasErrors, req, calls, mail, add, thrown, logged>>

\* getListMember rejects: the inner catch adds the member
ContactGetListMemberThrows ==
    /\ pc = "contact_await_getListMember"
    /\ \E e \in EnrollErrors : thrown' = e
    /\ lookup' = "failed"
    /\ calls' = Append(calls, ContactAddCall(audienceId, req.body))
    /\ inflight' = (inflight \ {"getListMember"}) \cup {"addListMember"}
    /\ add' = "pending"
    /\ pc' = "contact_await_addListMember"
    /\ UNCHANGED <<audienceId, zodHasErrors, req, mail, logged, res>>

ContactAddListMemberOk ==
    /\ pc = "contact_await_addListMember"
    /\ add' = "ok"
    /\ inflight' = inflight \ {"addListMember"}
    /\ Respond(ContactSuccess)
    /\ UNCHANGED <<audienceId, zodHasErrors, req, calls, mail, lookup, thrown, logged>>

\* addListMember rejects: catch (mailchimpError) logs it and the request succeeds
ContactAddListMemberThrows_Propagate ==
    /\ pc = "contact_await_addListMember"
    /\ \E e \in EnrollErrors : thrown' = e /\ Respond(ContactFailure(e.message))
    /\ add' = "failed"
    /\ inflight' = inflight \ {"addListMember"}
    /\ logged' = Append(logged, "Contact form error:")
    /\ UNCHANGED <<audienceId, zodHasErrors, req, calls, mail, lookup>>

ContactAddListMemberThrows ==
    /\ pc = "contact_await_addListMember"
    /\ \E e \in EnrollErrors : thrown' = e
    /\ add' = "failed"
    /\ inflight' = inflight \ {"addListMember"}
    /\ logged' = Append(logged, "Failed to add to newsletter:")
    /\ Respond(ContactSuccess)
    /\ UNCHANGED <<audienceId, zodHasErrors, req, calls, mail, lookup>>

(* POST /api/mailchimp/newsletter/subscribe *)

SubscribeStart ==
    /\ pc = "start" /\ req.kind = "subscribe"
    /\ IF Falsy(req.body, "email")
       THEN Respond(EmailRequired) /\ UNCHANGED <<calls, inflight, add>>
       ELSE IF SubscribeListMissing
       THEN Respond(NotConfigured) /\ UNCHANGED <<calls, inflight, add>>
       ELSE /\ calls' = Append(calls, SubscribeAddCall(audienceId, req.body))
            /\ inflight' = inflight \cup {"addListMember"}
            /\ add' = "pending"
            /\ pc' = "subscribe_await_addListMember"
            /\ UNCHANGED res
    /\ UNCHANGED <<audienceId, zodHasErrors, req, mail, lookup, thrown, logged>>

SubscribeAddListMemberOk ==
    /\ pc = "subscribe_await_addListMember"
    /\ add' = "ok"
    /\ inflight' = inflight \ {"addListMember"}
    /\ Respond(Subscribed)
    /\ UNCHANGED <<audienceId, zodHasErrors, req, calls, mail, lookup, thrown, logged>>

SubscribeAddListMemberThrows ==
    /\ pc = "subscribe_await_addListMember"
    /\ \E e \in MailchimpErrors :
          /\ thrown' = e
          /\ IF IsMemberExists(e)
             THEN Respond(AlreadySubscribed)
             ELSE Respond(SubscribeFailure(e.message))
    /\ add' = "failed"
    /\ inflight' = inflight \ {"addListMember"}
    /\ UNCHANGED <<audienceId, zodHasErrors, req, calls, mail, lookup, logged>>

(* DELETE /api/mailchimp/newsletter/unsubscribe/:email *)

UnsubscribeStart ==
    /\ pc = "start" /\ req.kind = "unsubscribe"
    /\ IF Falsy(req.body, "email")
       THEN Respond(EmailRequired) /\ UNCHANGED <<calls, inflight>>
       ELSE IF UnsubscribeListMissing
       THEN Respond(NotConfigured) /\ UNCHANGED <<calls, inflight>>
       ELSE /\ calls' = Append(calls, UpdateListMemberCall(audienceId, req.body.email))
            /\ inflight' = inflight \cup {"updateListMember"}
            /\ pc' = "unsubscribe_await_updateListMember"
            /\ UNCHANGED res
    /\ UNCHANGED <<audienceId, zodHasErrors, req, mail, lookup, add, thrown, logged>>

UnsubscribeUpdateListMemberOk ==
    /\ pc = "unsubscribe_await_updateListMember"
    /\ inflight' = inflight \ {"updateListMember"}
    /\ Respond(Unsubscribed)
    /\ UNCHANGED <<audienceId, zodHasErrors, req, calls, mail, lookup, add, thrown, logged>>

UnsubscribeUpdateListMemberThrows ==
    /\ pc = "unsubscribe_await_updateListMember"
    /\ \E e \in MailchimpErrors : thrown' = e /\ Respond(UnsubscribeFailure(e.message))
    /\ inflight' = inflight \ {"updateListMember"}
    /\ UNCHANGED <<audienceId, zodHasErrors, req, calls, mail, lookup, add, logged>>

Next ==
    \/ Receive
    \/ Finish
    \/ ContactParse
    \/ ContactSendMailOk
    \/ ContactSendMailThrows
    \/ ContactGetListMemberOk
    \/ ContactGetListMemberThrows
    \/ ContactAddListMemberOk
    \/ ContactAddListMemberThrows
    \/ SubscribeStart
    \/ SubscribeAddListMemberOk
    \/ SubscribeAddListMemberThrows
    \/ UnsubscribeStart
    \/ UnsubscribeUpdateListMemberOk
    \/ UnsubscribeUpdateListMemberThrows

Spec == Init /\ [][Next]_vars

-----------------------------------------------------------------------------
(* Properties                                                               *)

IsContact == req.kind = "contact"
OpsCalled == {calls[i].op : i \in 1..Len(calls)}
CountOf(op) == Cardinality({i \in 1..Len(calls) : calls[i].op = op})
NoAudienceCall == OpsCalled \cap AudienceOps = {}

\* C1: when sendMail throws for a valid contact submission, the request ends at
\* once with a 500 JSON response, success false, carrying the transport's error
\* text, and no audience call (getListMember, addListMember) is made.
C1_MailFailureIsFatal ==
    (IsContact /\ mail = "failed") =>
        /\ pc = "done"
        /\ res.status = 500 /\ res.json /\ res.success = FALSE
        /\ res.error = thrown.message /\ thrown.message \in TransportErrors
        /\ NoAudienceCall
        /\ inflight = {}

C1_Witness ==
    /\ IsContact /\ pc = "done" /\ mail = "failed"
    /\ SchemaIssues(req.body) = <<>>
    /\ audienceId # ""
    /\ res.error = "EAUTH"

\* C2: once sendMail has succeeded, the contact request answers 200 with success
\* true whatever the audience service does: lookup succeeds, lookup throws and
\* the add succeeds, or lookup throws and the add throws.
C2_MailSuccessIsReported ==
    (IsContact /\ mail = "ok") =>
        /\ res \in {NoResponse, ContactSuccess}
        /\ pc = "done" =>
              /\ res.status = 200 /\ res.json /\ res.success = TRUE
              /\ (lookup = "ok" \/ add \in {"ok", "failed"} \/ audienceId = "")

C2_Witness ==
    /\ IsContact /\ pc = "done" /\ mail = "ok"
    /\ lookup = "failed" /\ add = "failed"
    /\ res.status = 200 /\ res.success = TRUE

\* the fields of a contact payload for which the schema reports an issue
InvalidFields(b) ==
    {f \in ContactFields :
        \E i \in 1..Len(SchemaIssues(b)) : SchemaIssues(b)[i].field = f}

\* C3 (as claimed): every contact payload that violates at least one schema
\* constraint is answered 400 with one {field, message} entry per violated
\* constraint, and no collaborator is called.
C3_InvalidPayloadGets400 ==
    (IsContact /\ pc = "done" /\ SchemaIssues(req.body) # <<>>) =>
        /\ res.status = 400 /\ res.json
        /\ Len(res.errors) = Cardinality(InvalidFields(req.body))
        /\ \A f \in InvalidFields(req.body) :
              \E i \in 1..Len(res.errors) : res.errors[i].field = f
        /\ calls = <<>>

\* the six constraints of a ContactSubmission as the specification lists them
SixConstraints(b) ==
    /\ DOMAIN b = ContactFields
    /\ Len(b.name) >= 2
    /\ IsEmail(b.email)
    /\ b.phone >= 10
    /\ b.contactAbout # ""
    /\ b.message >= 20 /\ b.message <= 1000
    /\ b.agreeToPolicy = TRUE

\* C4 (as claimed): whenever a contact request has called sendMail or the
\* audience service, its submission satisfies all six constraints, a non-empty
\* contactAbout among them.
C4_SideEffectsOnlyWhenSixHold ==
    (IsContact /\ calls # <<>>) => SixConstraints(req.body)

\* C5: in the subscribe handler an addListMember error with status 400 and title
\* "Member Exists" is answered 400 with the already-subscribed message, every
\* other addListMember error is answered with the generic 500, and success 201.
C5_SubscribeOutcomes ==
    (req.kind = "subscribe" /\ pc = "done" /\ add # "none") =>
        /\ add = "failed" /\ thrown.status = 400 /\ thrown.title = "Member Exists" =>
              /\ res.status = 400 /\ res.success = FALSE
              /\ res.message = "This email is already subscribed to the newsletter"
        /\ add = "failed" /\ ~(thrown.status = 400 /\ thrown.title = "Member Exists") =>
              /\ res.status = 500 /\ res.success = FALSE
              /\ res.message = "Failed to subscribe to newsletter"
              /\ res.error = thrown.message
        /\ add = "ok" => res.status = 201 /\ res.success = TRUE

C5_Witness ==
    /\ req.kind = "subscribe" /\ pc = "done" /\ add = "failed"
    /\ thrown.status = 400 /\ thrown.title = "Member Exists"
    /\ res.status = 400

IsNewsletter == req.kind \in {"subscribe", "unsubscribe"}

\* C6 (as claimed): every subscribe or unsubscribe request made while no audience
\* list is configured is answered 500 with the configuration message, and makes
\* no call to the audience service.
C6_Unconfigured500Always ==
    (IsNewsletter /\ audienceId = "" /\ pc = "done") =>
        /\ res.status = 500
        /\ res.message = "Mailchimp audience ID is not configured"
        /\ calls = <<>>

\* C6 (amended): a subscribe or unsubscribe request made while no audience list is
\* configured makes no call to the audience service; it is answered 500 with the
\* configuration message when it carries a non-empty email, and 400 "Email is
\* required" when it carries none.
C6_UnconfiguredNoCall ==
    (IsNewsletter /\ audienceId = "" /\ pc # "start") =>
        /\ pc = "done"
        /\ calls = <<>> /\ inflight = {}
        /\ IF Has(req.body, "email") /\ req.body.email # ""
           THEN /\ res.status = 500 /\ res.json /\ res.success = FALSE
                /\ res.message = "Mailchimp audience ID is not configured"
           ELSE /\ res.status = 400 /\ res.json /\ res.success = FALSE
                /\ res.message = "Email is required"

C6_Witness ==
    /\ req.kind = "subscribe" /\ audienceId = "" /\ pc = "done"
    /\ Has(req.body, "email") /\ req.body.email = "User@Example.com"
    /\ res.status = 500 /\ calls = <<>>

\* C7: within one contact request the steps are sequential: sendMail is called
\* only for a payload that passed validation, an audience call is made only after
\* sendMail has resolved successfully, and the mail send and an audience call are
\* never in flight together.
C7_StrictlySequential ==
    IsContact =>
        /\ Cardinality(inflight) <= 1
        /\ "sendMail" \in OpsCalled =>
              SchemaIssues(req.body) = <<>> /\ calls[1].op = "sendMail"
        /\ "sendMail" \in inflight => mail = "pending" /\ NoAudienceCall
        /\ ~NoAudienceCall => mail = "ok" /\ "sendMail" \notin inflight
        /\ \A i \in 2..Len(calls) : calls[i].op \in AudienceOps

C7_Witness ==
    /\ IsContact /\ mail = "ok"
    /\ inflight = {"addListMember"}
    /\ Len(calls) = 3

\* C8: enrollment is check-before-add: after a successful mail send with a
\* configured list, getListMember is called exactly once; addListMember is called
\* exactly once, with status "subscribed" and tag "contact-form", iff the lookup
\* threw; when the lookup succeeds no mutating audience call is made.
C8_CheckBeforeAdd ==
    (IsContact /\ pc = "done" /\ mail = "ok" /\ audienceId # "") =>
        /\ CountOf("getListMember") = 1
        /\ lookup \in {"ok", "failed"}
        /\ CountOf("addListMember") = (IF lookup = "failed" THEN 1 ELSE 0)
        /\ CountOf("updateListMember") = 0
        /\ \A i \in 1..Len(calls) :
              calls[i].op = "addListMember" =>
                  /\ calls[i].status = "subscribed"
                  /\ calls[i].tags = {"contact-form"}
                  /\ calls[i].list = audienceId

C8_Witness ==
    /\ IsContact /\ pc = "done" /\ mail = "ok" /\ audienceId # ""
    /\ lookup = "failed"
    /\ CountOf("addListMember") = 1

\* a name cut at runs of whitespace: its tokens
RECURSIVE Tokens(_)
Tokens(s) ==
    IF s = <<>> THEN <<>>
    ELSE IF s[1] \in WhiteSpace THEN Tokens(Tail(s))
    ELSE LET n == CHOOSE k \in 1..Len(s) :
                      /\ \A j \in 1..k : s[j] \notin WhiteSpace
                      /\ (k = Len(s) \/ s[k + 1] \in WhiteSpace)
         IN  <<SubSeq(s, 1, n)>> \o Tokens(SubSeq(s, n + 1, Len(s)))

\* C9 (as claimed): the member added by the contact flow has FNAME equal to the
\* first whitespace-separated token of the name and LNAME equal to the remaining
\* tokens joined by single spaces, for every valid name.
C9_NameSplitOnWhitespace ==
    \A i \in 1..Len(calls) :
        (IsContact /\ calls[i].op = "addListMember") =>
            LET t == Tokens(req.body.name) IN
            /\ calls[i].FNAME = (IF t = <<>> THEN <<>> ELSE t[1])
            /\ calls[i].LNAME = (IF t = <<>> THEN <<>> ELSE Join(Tail(t)))

\* C10: with no audience list configured the contact flow skips enrollment: a
\* successful mail send is answered 200 success at once, with no audience call.
C10_EnrollmentSkippedWhenUnconfigured ==
    (IsContact /\ mail = "ok" /\ audienceId = "") =>
        /\ pc = "done"
        /\ res.status = 200 /\ res.json /\ res.success = TRUE
        /\ OpsCalled = {"sendMail"}
        /\ lookup = "none" /\ add = "none" /\ inflight = {}

C10_Witness ==
    /\ IsContact /\ mail = "ok" /\ audienceId = "" /\ pc = "done"
    /\ res = ContactSuccess
    /\ Len(calls) = 1

====
